---- MODULE Spec2Model ----
(***************************************************************************)
(* CloudHypervisorVM (vm_controller.py): one Controller instance, the      *)
(* hypervisor subprocesses it spawns, and the file at the control-channel  *)
(* path self.api_socket.  The caller is single-threaded; a subprocess runs *)
(* concurrently with the blocking calls start() and stop(), so those two   *)
(* are split at their waits and the subprocess steps interleave there.     *)
(***************************************************************************)
EXTENDS Integers, FiniteSets, Sequences

\* Bound of the model: number of subprocesses one run may spawn.
MaxSpawns == 3

\* start(): timeout = 10 (seconds); stop(): self.process.wait(timeout=10).
StartTimeout == 10
StopTimeout == 10
\* One clock tick is one time.sleep(0.1) of the readiness loop.
TicksPerSecond == 10

Pids == 1..MaxSpawns
NoProcess == 0
NoFile == 0

VARIABLES
    process,   \* self.process: NoProcess (None) or the pid of the Popen handle
    hv,        \* hv[p]: the subprocess p: "unborn", "running", "paused",
               \*        "shutdown" (guest shut down, VMM alive) or "exited"
    sock,      \* the file at self.api_socket: NoFile or the pid that created it
    pc,        \* where the caller is: "idle" or inside start()/stop()
    clock,     \* ticks elapsed in the bounded wait in progress
    last,      \* the call in progress or last returned, and what it did
    hist,      \* spawns of the last two start() calls since the last stop(), and
               \* 1 when the last start() to return True or False returned False
    api_socket,   \* self.api_socket: the control-channel path
    config,       \* self.config: the ordered mapping, a sequence of <<key, value>>
    config_file,  \* the JSON document at self.config_path, or NoDocument
    saved_cmd,    \* the argument list rendered when config_file was written
    base,         \* the configuration at construction or after the last load
    patches       \* the update_config patches applied since base

lifevars == <<process, hv, sock, pc, clock, last, hist>>
cfgvars == <<api_socket, config, config_file, saved_cmd, base, patches>>
vars == <<process, hv, sock, pc, clock, last, hist,
          api_socket, config, config_file, saved_cmd, base, patches>>

Alive(p) == p \in Pids /\ hv[p] \in {"running", "paused", "shutdown"}
Spawned == {p \in Pids : hv[p] # "unborn"}
LiveProcs == {p \in Pids : Alive(p)}

\* self.process.poll() is None
poll_is_None == process # NoProcess /\ Alive(process)

\* The record of a call, as it stands when the call begins: which operation,
\* the value returned (ret), the outcome of its API request (api) and whether
\* the transport attempted a connection (conn), the handle (target) and
\* whether its subprocess was alive (live) and how many subprocesses had been
\* spawned (born) when the call began, the pid start() spawned (spawned),
\* whether start() removed an old socket file (removed), the file at the
\* moment of the spawn (sockAtSpawn), the file seen by start()'s final check
\* (seen) and the ticks elapsed then (ticks), whether terminate() was sent
\* (sig), whether the call slept or blocked (waited), whether the socket
\* file was created while start() was polling (created), the method of the
\* API request (method) and how many API requests the call made (reqs).
Call(op) ==
    [op |-> op, ret |-> "pending", api |-> "none", conn |-> FALSE,
     target |-> process, live |-> poll_is_None, born |-> Cardinality(Spawned),
     spawned |-> NoProcess, removed |-> FALSE, sockAtSpawn |-> NoFile,
     seen |-> NoFile, ticks |-> 0, sig |-> FALSE, waited |-> FALSE,
     created |-> FALSE, method |-> "none", reqs |-> 0]

NoCall == [Call("none") EXCEPT !.ret = "None"]

(***************************************************************************)
(* Configuration store                                                     *)
(***************************************************************************)
\* Bound of the model: number of update_config calls between two loads.
MaxPatches == 2

\* Python values: a string, an integer, a dict of scalars (pairs: a sequence
\* of <<sub-key, scalar>>), a list of dicts and scalars (items).
Str(s) == [t |-> "str", s |-> s, n |-> 0, items |-> <<>>, pairs |-> <<>>]
Num(n) == [t |-> "int", s |-> "", n |-> n, items |-> <<>>, pairs |-> <<>>]
Dict(pairs) == [t |-> "dict", s |-> "", n |-> 0, items |-> <<>>, pairs |-> pairs]
List(items) == [t |-> "list", s |-> "", n |-> 0, items |-> items, pairs |-> <<>>]

\* __init__: vm_name = "micro-vm"; self.api_socket = f"/tmp/{vm_name}-api.sock"
SocketPath == "/tmp/micro-vm-api.sock"

\* __init__: the default configuration, in insertion order.
DefaultConfig ==
    << <<"kernel", Str("./vmlinux")>>,
       <<"disk", List(<< Dict(<< <<"path", Str("./rootfs.img")>> >>) >>)>>,
       <<"cmdline", Str("console=hvc0 root=/dev/vda rw init=/init")>>,
       <<"cpus", Str("boot=2")>>,
       <<"memory", Str("size=256M")>>,
       <<"serial", Str("tty")>>,
       <<"console", Str("off")>>,
       <<"api-socket", Str(SocketPath)>> >>

Keys(cfg) == [i \in 1..Len(cfg) |-> cfg[i][1]]
HasKey(cfg, k) == \E i \in 1..Len(cfg) : cfg[i][1] = k
Get(cfg, k) == cfg[CHOOSE i \in 1..Len(cfg) : cfg[i][1] = k][2]

\* dict[k] = v: an existing key keeps its position, a new key goes last.
SetItem(cfg, k, v) ==
    IF HasKey(cfg, k)
    THEN [i \in 1..Len(cfg) |-> IF cfg[i][1] = k THEN <<k, v>> ELSE cfg[i]]
    ELSE Append(cfg, <<k, v>>)

\* A plausible slip: an updated key is deleted and inserted again, last.
dict_update_reinserts(cfg, patch) ==
    LET touched(k) == \E j \in 1..Len(patch) : patch[j][1] = k
    IN  SelectSeq(cfg, LAMBDA e : ~touched(e[1])) \o patch

\* dict.update(patch): the items of the patch, set in order.
RECURSIVE dict_update(_, _)
dict_update(cfg, patch) ==
    IF patch = <<>> THEN cfg
    ELSE dict_update(SetItem(cfg, Head(patch)[1], Head(patch)[2]), Tail(patch))

\* str(value) of a scalar: the string itself, the decimal digits of an integer.
Digits == <<"0", "1", "2", "3", "4", "5", "6", "7", "8", "9">>
str_of(v) == IF v.t = "str" THEN v.s ELSE Digits[v.n + 1]

\* The tokens of the argument list: a flag "--<key>" (text: the key), an
\* argument (text), a token "k=v,k=v" joined from a dict (pairs), or the
\* Python literal that str(value) gives for a list (lit).
NoValue == Str("")
Flag(key) == [kind |-> "flag", text |-> key, pairs |-> <<>>, lit |-> NoValue]
Arg(text) == [kind |-> "arg", text |-> text, pairs |-> <<>>, lit |-> NoValue]
Joined(pairs) == [kind |-> "joined", text |-> "", pairs |-> pairs, lit |-> NoValue]
Literal(v) == [kind |-> "literal", text |-> "", pairs |-> <<>>, lit |-> v]

\* ",".join([f"{k}={v}" for k, v in disk.items()])
disk_str(d) == Joined([i \in 1..Len(d.pairs) |-> <<d.pairs[i][1], str_of(d.pairs[i][2])>>])

\* str(value) as one token.
str_token(v) == IF v.t \in {"str", "int"} THEN Arg(str_of(v)) ELSE Literal(v)

\* build_command, lines 66-71: one --<key> <element> pair per element.
RECURSIVE per_element(_, _)
per_element(key, items) ==
    IF items = <<>> THEN <<>>
    ELSE << Flag(key),
            IF Head(items).t = "dict" THEN disk_str(Head(items))
            ELSE str_token(Head(items)) >>
         \o per_element(key, Tail(items))

\* A plausible slip: the list branch is taken for no key at all.
render_entry_without_list_branch(key, value) == << Flag(key), str_token(value) >>

\* build_command, lines 65-73: what one configuration entry adds to cmd.
render_entry(key, value) ==
    IF key = "disk" /\ value.t = "list"
    THEN per_element(key, value.items)
    ELSE << Flag(key), str_token(value) >>

RECURSIVE render_entries(_)
render_entries(cfg) ==
    IF cfg = <<>> THEN <<>>
    ELSE render_entry(Head(cfg)[1], Head(cfg)[2]) \o render_entries(Tail(cfg))

\* build_command()
build_command(cfg) == << Arg("cloud-hypervisor") >> \o render_entries(cfg)

\* JSON values: a string, a number, an object (pairs), an array (items).
JString(s) == [j |-> "string", s |-> s, n |-> 0, items |-> <<>>, pairs |-> <<>>]
JNumber(n) == [j |-> "number", s |-> "", n |-> n, items |-> <<>>, pairs |-> <<>>]
JObject(pairs) == [j |-> "object", s |-> "", n |-> 0, items |-> <<>>, pairs |-> pairs]
JArray(items) == [j |-> "array", s |-> "", n |-> 0, items |-> items, pairs |-> <<>>]
NoDocument == <<>>

\* json.dump: str to string, int to number, dict to object, list to array,
\* the keys of an object in insertion order.
scalar_to_json(v) == IF v.t = "str" THEN JString(v.s) ELSE JNumber(v.n)
elem_to_json(v) ==
    IF v.t = "dict"
    THEN JObject([i \in 1..Len(v.pairs) |-> <<v.pairs[i][1], scalar_to_json(v.pairs[i][2])>>])
    ELSE scalar_to_json(v)
value_to_json(v) ==
    IF v.t = "list"
    THEN JArray([i \in 1..Len(v.items) |-> elem_to_json(v.items[i])])
    ELSE elem_to_json(v)

\* A plausible slip: json.dump(..., sort_keys=True) for the two keys the
\* default configuration has out of alphabetical order at its end.
json_dump_sort_keys(cfg) ==
    LET doc == [i \in 1..Len(cfg) |-> <<cfg[i][1], value_to_json(cfg[i][2])>>]
        n == Len(doc)
    IN  IF n >= 2 /\ doc[n][1] = "api-socket"
        THEN <<doc[n]>> \o SubSeq(doc, 1, n - 1)
        ELSE doc

json_dump(cfg) == [i \in 1..Len(cfg) |-> <<cfg[i][1], value_to_json(cfg[i][2])>>]

\* json.load: string to str, number to int, object to dict, array to list.
json_to_scalar(x) == IF x.j = "string" THEN Str(x.s) ELSE Num(x.n)
json_to_elem(x) ==
    IF x.j = "object"
    THEN Dict([i \in 1..Len(x.pairs) |-> <<x.pairs[i][1], json_to_scalar(x.pairs[i][2])>>])
    ELSE json_to_scalar(x)
json_to_value(x) ==
    IF x.j = "array"
    THEN List([i \in 1..Len(x.items) |-> json_to_elem(x.items[i])])
    ELSE json_to_elem(x)
json_load(doc) == [i \in 1..Len(doc) |-> <<doc[i][1], json_to_value(doc[i][2])>>]

\* The keyword arguments update_config is called with.
PatchSet ==
    { << <<"memory", Str("size=512M")>> >>,
      << <<"disk", List(<< Dict(<< <<"path", Str("./a.img")>>, <<"readonly", Str("on")>> >>),
                           Str("./b.img") >>)>> >>,
      << <<"net", List(<< Dict(<< <<"tap", Str("tap0")>> >>) >>)>> >>,
      << <<"api-socket", Str("/tmp/other.sock")>> >>,
      << <<"rng", Str("src=/dev/urandom")>>, <<"memory", Str("size=1G")>> >>,
      << <<"cpus", Num(4)>>, <<"net", Str("tap=tap0")>> >> }

\* update_config(**kwargs)
update_config ==
    /\ pc = "idle"
    /\ Len(patches) < MaxPatches
    /\ \E patch \in PatchSet :
         /\ config' = dict_update(config, patch)
         /\ patches' = Append(patches, patch)
    /\ UNCHANGED <<api_socket, config_file, saved_cmd, base>>
    /\ UNCHANGED lifevars

\* save_config()
save_config ==
    /\ pc = "idle"
    /\ config_file' = json_dump(config)
    /\ saved_cmd' = build_command(config)
    /\ UNCHANGED <<api_socket, config, base, patches>>
    /\ UNCHANGED lifevars

\* load_config(): the file replaces the configuration, or it is missing and
\* the configuration stays.
load_config ==
    /\ pc = "idle"
    /\ IF config_file # NoDocument
       THEN /\ config' = json_load(config_file)
            /\ base' = config'
            /\ patches' = <<>>
       ELSE UNCHANGED <<config, base, patches>>
    /\ UNCHANGED <<api_socket, config_file, saved_cmd>>
    /\ UNCHANGED lifevars

Init ==
    /\ process = NoProcess
    /\ hv = [p \in Pids |-> "unborn"]
    /\ sock = NoFile
    /\ pc = "idle"
    /\ clock = 0
    /\ last = NoCall
    /\ hist = <<-1, -1, 0>>
    /\ api_socket = SocketPath
    /\ config = DefaultConfig
    /\ config_file = NoDocument
    /\ saved_cmd = <<>>
    /\ base = DefaultConfig
    /\ patches = <<>>

(***************************************************************************)
(* API transport                                                           *)
(***************************************************************************)
Methods == {"GET", "PUT", "POST"}

\* What the hypervisor does with a request it received.
Served(endpoint) ==
    CASE endpoint = "vm.pause"    -> [hv EXCEPT ![sock] = IF @ = "running" THEN "paused" ELSE @]
      [] endpoint = "vm.resume"   -> [hv EXCEPT ![sock] = IF @ = "paused" THEN "running" ELSE @]
      [] endpoint = "vm.reboot"   -> [hv EXCEPT ![sock] = IF @ = "shutdown" THEN @ ELSE "running"]
      [] endpoint = "vm.shutdown" -> [hv EXCEPT ![sock] = "shutdown"]
      [] OTHER                    -> hv

\* A plausible slip: no try/except around the request, so a connection error
\* is raised to the caller instead of being returned as None.
api_request_without_except(method, endpoint) ==
    IF sock = NoFile
    THEN {[api |-> "nosock", conn |-> FALSE, ret |-> "None", hv |-> hv]}
    ELSE IF method \notin Methods
    THEN {[api |-> "unsupported", conn |-> FALSE, ret |-> "None", hv |-> hv]}
    ELSE IF ~Alive(sock)
    THEN {[api |-> "refused", conn |-> TRUE, ret |-> "raise", hv |-> hv]}
    ELSE {[api |-> IF ok THEN "ok" ELSE "failed", conn |-> TRUE,
           ret |-> IF ok THEN "Ok" ELSE "None",
           hv |-> IF served THEN Served(endpoint) ELSE hv] :
             ok \in BOOLEAN, served \in BOOLEAN}

\* A plausible slip: no os.path.exists check, so the connection is attempted
\* on a missing socket file and fails.
api_request_without_exists_check(method, endpoint) ==
    IF method \notin Methods
    THEN {[api |-> "unsupported", conn |-> FALSE, ret |-> "None", hv |-> hv]}
    ELSE IF ~Alive(sock)
    THEN {[api |-> "refused", conn |-> TRUE, ret |-> "None", hv |-> hv]}
    ELSE {[api |-> IF ok THEN "ok" ELSE "failed", conn |-> TRUE,
           ret |-> IF ok THEN "Ok" ELSE "None",
           hv |-> IF served THEN Served(endpoint) ELSE hv] :
             ok \in BOOLEAN, served \in BOOLEAN}

\* api_request(method, endpoint): the outcomes it can have in this state, each
\* with the kind of outcome (api), whether a connection was attempted (conn),
\* the value returned (ret) and the subprocesses afterwards (hv).
api_request(method, endpoint) ==
    IF sock = NoFile
    THEN {[api |-> "nosock", conn |-> FALSE, ret |-> "None", hv |-> hv]}
    ELSE IF method \notin Methods
    THEN {[api |-> "unsupported", conn |-> FALSE, ret |-> "None", hv |-> hv]}
    ELSE IF ~Alive(sock)
    THEN {[api |-> "refused", conn |-> TRUE, ret |-> "None", hv |-> hv]}
    ELSE {[api |-> IF ok THEN "ok" ELSE "failed", conn |-> TRUE,
           ret |-> IF ok THEN "Ok" ELSE "None",
           hv |-> IF served THEN Served(endpoint) ELSE hv] :
             ok \in BOOLEAN, served \in BOOLEAN}

\* A plausible slip: a failed request is taken as "the VM is gone" and the
\* handle is dropped.
ApiCall_drops_handle_on_failure(op, method, endpoint) ==
    /\ pc = "idle"
    /\ UNCHANGED cfgvars
    /\ \E o \in api_request(method, endpoint) :
         /\ hv' = o.hv
         /\ last' = [Call(op) EXCEPT !.ret = o.ret, !.api = o.api, !.conn = o.conn,
                                      !.method = method, !.reqs = 1]
         /\ process' = IF o.ret = "None" THEN NoProcess ELSE process
    /\ UNCHANGED <<sock, pc, clock, hist>>

\* pause(), resume(), reboot(), get_info(), ping(): return self.api_request(...)
ApiCall(op, method, endpoint) ==
    /\ pc = "idle"
    /\ UNCHANGED cfgvars
    /\ \E o \in api_request(method, endpoint) :
         /\ hv' = o.hv
         /\ last' = [Call(op) EXCEPT !.ret = o.ret, !.api = o.api, !.conn = o.conn,
                                      !.method = method, !.reqs = 1]
    /\ UNCHANGED <<process, sock, pc, clock, hist>>

pause == ApiCall("pause", "PUT", "vm.pause")
resume == ApiCall("resume", "PUT", "vm.resume")
reboot == ApiCall("reboot", "PUT", "vm.reboot")
get_info == ApiCall("get_info", "GET", "vm.info")
ping == ApiCall("ping", "GET", "vmm.ping")

\* api_request(method, endpoint) called by the caller itself, with any method.
Endpoints == {"vm.shutdown", "vm.pause", "vm.resume", "vm.reboot", "vm.info", "vmm.ping"}
api_request_call ==
    \E method \in Methods \cup {"DELETE"}, endpoint \in Endpoints :
        ApiCall("api_request", method, endpoint)

\* A plausible slip: the handle alone decides, no poll() and no ping.
is_running_handle_only ==
    {[api |-> "none", conn |-> FALSE, hv |-> hv,
      ret |-> IF process # NoProcess THEN "True" ELSE "False"]}

\* is_running(): the outcomes it can have in this state.
is_running_outcomes ==
    IF process = NoProcess
    THEN {[api |-> "none", conn |-> FALSE, ret |-> "False", hv |-> hv]}
    ELSE IF ~poll_is_None
    THEN {[api |-> "none", conn |-> FALSE, ret |-> "False", hv |-> hv]}
    ELSE {[o EXCEPT !.ret = IF o.ret # "None" THEN "True" ELSE "False"] :
            o \in api_request("GET", "vmm.ping")}

is_running ==
    /\ pc = "idle"
    /\ UNCHANGED cfgvars
    /\ \E o \in is_running_outcomes :
         /\ hv' = o.hv
         /\ last' = [Call("is_running") EXCEPT
                       !.ret = o.ret, !.api = o.api, !.conn = o.conn,
                       !.method = IF o.api = "none" THEN "none" ELSE "GET",
                       !.reqs = IF o.api = "none" THEN 0 ELSE 1]
    /\ UNCHANGED <<process, sock, pc, clock, hist>>

(***************************************************************************)
(* start()                                                                 *)
(***************************************************************************)
NewPid == Cardinality(Spawned) + 1

\* The limit of the readiness loop, in ticks.
StartLimit == StartTimeout * TicksPerSecond

\* Popen(cmd) with the file at the socket path being `file`: it spawns the
\* subprocess and assigns the handle, or raises and start() returns False.
Popen(file) ==
    \/ /\ NewPid \in Pids
       /\ process' = NewPid
       /\ hv' = [hv EXCEPT ![NewPid] = "running"]
       /\ last' = [Call("start") EXCEPT !.spawned = NewPid, !.removed = (sock # file),
                                        !.sockAtSpawn = file]
       /\ hist' = <<hist[2], 1, hist[3]>>
       /\ pc' = "start_poll"
       /\ clock' = 0
    \/ /\ last' = [Call("start") EXCEPT !.ret = "False", !.removed = (sock # file),
                                        !.sockAtSpawn = file]
       /\ hist' = <<hist[2], 0, 1>>
       /\ UNCHANGED <<process, hv, pc, clock>>

\* A plausible slip: no already-running check before the spawn.
start_without_running_check ==
    /\ pc = "idle"
    /\ UNCHANGED cfgvars
    /\ sock' = NoFile
    /\ Popen(NoFile)

\* A plausible slip: the old socket file is not removed before the spawn.
start_keeps_old_socket ==
    /\ pc = "idle"
    /\ UNCHANGED cfgvars
    /\ IF poll_is_None
       THEN /\ last' = [Call("start") EXCEPT !.ret = "None"]
            /\ hist' = <<hist[2], 0, hist[3]>>
            /\ UNCHANGED <<process, hv, sock, pc, clock>>
       ELSE /\ sock' = sock
            /\ Popen(sock)

\* start(), lines 79-96: the already-running check, the removal of the old
\* socket file, and subprocess.Popen.
start ==
    /\ pc = "idle"
    /\ UNCHANGED cfgvars
    /\ IF poll_is_None
       THEN /\ last' = [Call("start") EXCEPT !.ret = "None"]
            /\ hist' = <<hist[2], 0, hist[3]>>
            /\ UNCHANGED <<process, hv, sock, pc, clock>>
       ELSE /\ sock' = NoFile
            /\ Popen(NoFile)

\* A plausible slip: the loop waits for the file with no time limit.
start_poll_without_timeout ==
    /\ pc = "start_poll"
    /\ UNCHANGED cfgvars
    /\ IF sock = NoFile
       THEN /\ clock' = IF clock < StartLimit THEN clock + 1 ELSE clock
            /\ last' = [last EXCEPT !.waited = TRUE]
            /\ pc' = pc
       ELSE pc' = "start_check" /\ UNCHANGED <<clock, last>>
    /\ UNCHANGED <<process, hv, sock, hist>>

\* start(), lines 101-102: one evaluation of the loop condition, and the
\* sleep when it holds.
start_poll ==
    /\ pc = "start_poll"
    /\ UNCHANGED cfgvars
    /\ IF sock = NoFile /\ clock < StartLimit
       THEN /\ clock' = clock + 1
            /\ last' = [last EXCEPT !.waited = TRUE]
            /\ pc' = pc
       ELSE pc' = "start_check" /\ UNCHANGED <<clock, last>>
    /\ UNCHANGED <<process, hv, sock, hist>>

\* A plausible slip (the other policy): on timeout the subprocess is
\* terminated and the handle cleared.
start_return_reaps ==
    /\ pc = "start_check"
    /\ UNCHANGED cfgvars
    /\ last' = [last EXCEPT !.ret = IF sock # NoFile THEN "True" ELSE "False",
                            !.seen = sock, !.ticks = clock,
                            !.sig = (sock = NoFile)]
    /\ process' = IF sock # NoFile THEN process ELSE NoProcess
    /\ hv' = IF sock # NoFile \/ ~poll_is_None THEN hv
             ELSE [hv EXCEPT ![process] = "exited"]
    /\ hist' = [hist EXCEPT ![3] = IF sock # NoFile THEN 0 ELSE 1]
    /\ pc' = "idle"
    /\ clock' = 0
    /\ UNCHANGED sock

\* start(), lines 104-109: the final existence check and the return.
start_return ==
    /\ pc = "start_check"
    /\ UNCHANGED cfgvars
    /\ last' = [last EXCEPT !.ret = IF sock # NoFile THEN "True" ELSE "False",
                            !.seen = sock, !.ticks = clock]
    /\ hist' = [hist EXCEPT ![3] = IF sock # NoFile THEN 0 ELSE 1]
    /\ pc' = "idle"
    /\ clock' = 0
    /\ UNCHANGED <<process, hv, sock>>

(***************************************************************************)
(* stop()                                                                  *)
(***************************************************************************)
\* The limit of the graceful wait, in ticks.
StopLimit == StopTimeout * TicksPerSecond

\* stop(), lines 117-119: the handle test and the vm.shutdown request.
stop ==
    /\ pc = "idle"
    /\ UNCHANGED cfgvars
    /\ hist' = <<-1, -1, hist[3]>>
    /\ IF process = NoProcess
       THEN /\ last' = [Call("stop") EXCEPT !.ret = "None"]
            /\ UNCHANGED <<process, hv, sock, pc, clock>>
       ELSE /\ \E o \in api_request("PUT", "vm.shutdown") :
                 /\ hv' = o.hv
                 /\ last' = [Call("stop") EXCEPT !.api = o.api, !.conn = o.conn,
                                                 !.method = "PUT", !.reqs = 1]
                 /\ pc' = IF o.api \in {"ok", "failed"} THEN "stop_request" ELSE "stop_wait"
            /\ clock' = 0
            /\ UNCHANGED <<process, sock>>

\* self.session.put(url, json=data) returns or raises inside api_request: the
\* request was sent to a connected hypervisor with no timeout, so it returns
\* when the hypervisor answers or closes the connection.
stop_request_returns ==
    /\ pc = "stop_request"
    /\ pc' = "stop_wait"
    /\ UNCHANGED <<process, hv, sock, clock, last, hist>>
    /\ UNCHANGED cfgvars

\* self.process.wait(timeout=10): time passes, the subprocess still alive.
stop_wait_tick ==
    /\ pc = "stop_wait"
    /\ UNCHANGED cfgvars
    /\ poll_is_None
    /\ clock < StopLimit
    /\ clock' = clock + 1
    /\ last' = [last EXCEPT !.waited = TRUE]
    /\ UNCHANGED <<process, hv, sock, pc, hist>>

\* A plausible slip: terminate() moved to the finally branch, so it is also
\* called after a wait that returned.
stop_wait_exited_terminates ==
    /\ pc = "stop_wait"
    /\ UNCHANGED cfgvars
    /\ ~poll_is_None
    /\ process' = NoProcess
    /\ last' = [last EXCEPT !.ret = "None", !.sig = TRUE]
    /\ pc' = "idle"
    /\ clock' = 0
    /\ UNCHANGED <<hv, sock, hist>>

\* self.process.wait(timeout=10) returns; finally: self.process = None.
stop_wait_exited ==
    /\ pc = "stop_wait"
    /\ UNCHANGED cfgvars
    /\ ~poll_is_None
    /\ process' = NoProcess
    /\ last' = [last EXCEPT !.ret = "None"]
    /\ pc' = "idle"
    /\ clock' = 0
    /\ UNCHANGED <<hv, sock, hist>>

\* A plausible slip: no except branch, so TimeoutExpired goes through
\* finally (self.process = None) with the subprocess neither signalled nor
\* waited for.
stop_terminate_missing_except ==
    /\ pc = "stop_wait"
    /\ UNCHANGED cfgvars
    /\ poll_is_None
    /\ clock = StopLimit
    /\ process' = NoProcess
    /\ last' = [last EXCEPT !.ret = "raise"]
    /\ pc' = "idle"
    /\ clock' = 0
    /\ UNCHANGED <<hv, sock, hist>>

\* wait raises TimeoutExpired; except: self.process.terminate().
stop_terminate ==
    /\ pc = "stop_wait"
    /\ UNCHANGED cfgvars
    /\ poll_is_None
    /\ clock = StopLimit
    /\ last' = [last EXCEPT !.sig = TRUE]
    /\ pc' = "stop_kill_wait"
    /\ clock' = 0
    /\ UNCHANGED <<process, hv, sock, hist>>

\* A plausible slip: no wait after terminate().
stop_kill_wait_returns_early ==
    /\ pc = "stop_kill_wait"
    /\ UNCHANGED cfgvars
    /\ process' = NoProcess
    /\ last' = [last EXCEPT !.ret = "None"]
    /\ pc' = "idle"
    /\ UNCHANGED <<hv, sock, clock, hist>>

\* self.process.wait() returns; finally: self.process = None.
stop_kill_wait ==
    /\ pc = "stop_kill_wait"
    /\ UNCHANGED cfgvars
    /\ ~poll_is_None
    /\ process' = NoProcess
    /\ last' = [last EXCEPT !.ret = "None"]
    /\ pc' = "idle"
    /\ UNCHANGED <<hv, sock, clock, hist>>

(***************************************************************************)
(* The hypervisor subprocess                                               *)
(***************************************************************************)
\* The subprocess creates its API socket file once it has initialised.
proc_creates_socket ==
    \E p \in Pids :
        /\ Alive(p)
        /\ sock = NoFile
        /\ sock' = p
        /\ last' = [last EXCEPT !.created = (@ \/ pc \in {"start_poll", "start_check"})]
        /\ UNCHANGED <<process, hv, pc, clock, hist>>
        /\ UNCHANGED cfgvars

\* The subprocess exits (on its own, after vm.shutdown, or on the signal),
\* removing its socket file or leaving it behind.
proc_exits ==
    \E p \in Pids, cleanup \in BOOLEAN :
        /\ Alive(p)
        /\ hv' = [hv EXCEPT ![p] = "exited"]
        /\ sock' = IF cleanup /\ sock = p THEN NoFile ELSE sock
        /\ UNCHANGED <<process, pc, clock, last, hist>>
        /\ UNCHANGED cfgvars

Next ==
    \/ start \/ start_poll \/ start_return
    \/ stop \/ stop_request_returns \/ stop_wait_tick \/ stop_wait_exited \/ stop_terminate \/ stop_kill_wait
    \/ pause \/ resume \/ reboot \/ get_info \/ ping \/ is_running
    \/ api_request_call
    \/ proc_creates_socket \/ proc_exits

Spec == Init /\ [][Next]_vars

\* The configuration store alone: the caller updates, saves and loads.
CfgNext == update_config \/ save_config \/ load_config

CfgSpec == Init /\ [][CfgNext]_vars

\* The caller's thread runs: a sleep of the readiness loop returns and the
\* loop condition is evaluated again; the final check follows the loop.
FairSpec == Spec /\ WF_vars(start_poll) /\ WF_vars(start_return)

\* The subprocess stop() signalled with terminate() exits.
terminated_exits ==
    /\ pc = "stop_kill_wait"
    /\ proc_exits
    /\ hv'[process] = "exited"

\* stop() runs: its waits return when their timeout or the exit they wait for
\* has come, a request whose peer has exited returns, and a terminated
\* subprocess exits.  Nothing makes a live hypervisor answer a request.
FairStopSpec ==
    /\ Spec
    /\ WF_vars(stop_wait_tick) /\ WF_vars(stop_wait_exited)
    /\ WF_vars(stop_terminate) /\ WF_vars(stop_kill_wait)
    /\ WF_vars(stop_request_returns /\ ~poll_is_None)
    /\ WF_vars(terminated_exits)

(***************************************************************************)
(* Properties                                                              *)
(***************************************************************************)
ApiFailures == {"nosock", "refused", "failed"}

\* C1, as stated: of two start() calls with no stop() between them, the
\* first having spawned a subprocess, the second spawns nothing, whatever
\* the subprocess did in between (also when it exited on its own).
C1_TwoStartsOneSpawn == hist[1] = 1 => hist[2] = 0

\* C1, amended: a start() called while the subprocess of the handle is
\* still alive (whether or not it created the control socket) spawns
\* nothing, returns None and leaves the handle alone; so two start() calls
\* with no stop() between them, the subprocess of the first still alive at
\* the second, perform exactly one spawn in total.
C1_StartWhileAliveSpawnsNothing ==
    (last.op = "start" /\ last.live) =>
        /\ last.spawned = NoProcess
        /\ Cardinality(Spawned) = last.born
        /\ last.ret = "None"
        /\ process = last.target
        /\ pc = "idle"
        /\ (hist[1] = 1 => hist[2] = 0)

\* The second start() returned None on a subprocess that never created the
\* control socket.
C1_Witness ==
    /\ pc = "idle" /\ last.op = "start" /\ last.live /\ last.ret = "None"
    /\ hist[1] = 1 /\ hist[2] = 0 /\ sock = NoFile /\ Alive(process)

\* C2: in every reachable state at most one subprocess spawned by the
\* Controller is alive, and a live one is the one the handle refers to.
C2_AtMostOneLiveAndOwned ==
    /\ Cardinality(LiveProcs) <= 1
    /\ \A p \in LiveProcs : process = p

\* A second subprocess is alive and owned, the first one having exited.
C2_Witness == process = 2 /\ Alive(2) /\ hv[1] = "exited" /\ last.op = "pause"

\* C3: whenever stop() has returned, by whichever path, the handle is
\* cleared and the subprocess it referred to has exited, and is_running()
\* called next returns False.
C3_StopClearsHandleAndReaps ==
    (pc = "idle" /\ last.op = "stop") =>
        /\ process = NoProcess
        /\ last.ret = "None"
        /\ (last.target # NoProcess => hv[last.target] = "exited")
        /\ \A o \in is_running_outcomes : o.ret = "False"

\* stop() returned after the graceful wait timed out and the subprocess,
\* which had not answered the shutdown request, was terminated.
C3_Witness ==
    /\ pc = "idle" /\ last.op = "stop" /\ last.sig /\ last.api \in ApiFailures
    /\ last.live

\* C4, as stated (here for a subprocess alive when stop() is called): if the
\* vm.shutdown request fails at the transport, or the graceful wait times
\* out, stop() escalates to terminate() and the unbounded wait.
C4_FailureEscalates ==
    (pc = "idle" /\ last.op = "stop" /\ last.live /\ last.api \in ApiFailures)
        => last.sig

\* C5: at the moment of every spawn by start() no file exists at the
\* control-channel path, and the file a successful start() saw at its final
\* check was created by the subprocess of that spawn.
C5_NoStaleSocket ==
    last.op = "start" =>
        /\ (last.spawned # NoProcess => last.sockAtSpawn = NoFile)
        /\ (last.ret = "True" => last.spawned # NoProcess /\ last.seen = last.spawned)

\* start() returned True after removing the file an earlier subprocess, now
\* exited, had left behind.
C5_Witness ==
    /\ pc = "idle" /\ last.op = "start" /\ last.ret = "True" /\ last.removed
    /\ last.spawned = 2 /\ hv[1] = "exited"

\* C6: start() returns True only if the control-channel file appeared
\* while it polled and its final check, made when the file appeared or the
\* timeout elapsed, finds the file; when the timeout has elapsed and the
\* file is not there it returns False, sends no signal to the subprocess it
\* spawned and leaves the handle on it, and it does so in the step that
\* returns.
C6_StartResult ==
    /\ [](last.op = "start" =>
            /\ (last.ret = "True" =>
                    /\ last.seen # NoFile /\ last.created
                    /\ last.ticks <= StartLimit)
            /\ (last.ret \in {"True", "False"} /\ last.spawned # NoProcess
                   /\ last.ticks = StartLimit /\ last.seen = NoFile =>
                    /\ last.ret = "False"
                    /\ ~last.sig
                    /\ process # NoProcess
                    /\ process = last.spawned))
    /\ [][pc = "start_check" /\ pc' = "idle" =>
                process' = process /\ hv' = hv /\ sock' = sock]_vars

\* start() returned False on timeout and its subprocess is alive, the handle
\* on it.
C6_Witness ==
    /\ pc = "idle" /\ last.op = "start" /\ last.ret = "False"
    /\ last.spawned # NoProcess /\ process = last.spawned /\ Alive(process)

\* C7: a start() that has spawned its subprocess returns; if the file
\* never appeared, the loop ended with the timeout elapsed and start()
\* returns False, whatever the subprocess does.
C7_StartTerminates ==
    (pc \in {"start_poll", "start_check"}) ~>
        (/\ pc = "idle" /\ last.op = "start" /\ last.ret \in {"True", "False"}
         /\ (~last.created => last.ret = "False" /\ last.ticks = StartLimit))

\* start() returned False on timeout, its subprocess having exited without
\* creating the file.
C7_Witness ==
    /\ pc = "idle" /\ last.op = "start" /\ last.ret = "False"
    /\ last.ticks = StartLimit /\ last.spawned # NoProcess /\ ~last.created
    /\ hv[last.spawned] = "exited"

C9_NoLiveNoEffect ==
    [][((pause \/ resume \/ reboot) /\ ~poll_is_None) =>
            /\ last'.ret = "None"
            /\ hv' = hv /\ process' = process /\ sock' = sock]_vars

\* pause() returned None after a connection attempt on the stale socket
\* file of an exited subprocess.
C9_Witness ==
    /\ last.op = "pause" /\ ~last.live /\ last.conn /\ last.api = "refused"
    /\ last.ret = "None"

\* C10, as stated: stop() with no live process (no handle, or a handle on
\* an exited subprocess) sends no request on the control channel, sends no
\* termination signal and does not wait.
C10_StopWithoutLiveProcessIsNoOp ==
    (pc = "idle" /\ last.op = "stop" /\ ~last.live) =>
        /\ ~last.conn /\ ~last.sig /\ ~last.waited /\ last.ret = "None"

\* C11: for every method and endpoint, when no file exists at the
\* control-channel path the transport returns None without attempting a
\* connection, without raising, and no subprocess receives anything.
C11_NoSocketNoConnection ==
    [][((pause \/ resume \/ reboot \/ get_info \/ ping \/ api_request_call)
          /\ sock = NoFile) =>
            /\ last'.api = "nosock" /\ last'.ret = "None" /\ ~last'.conn
            /\ hv' = hv]_vars

\* A request with an unsupported method returned None on a missing socket
\* file while the subprocess was alive.
C11_Witness ==
    /\ last.op = "api_request" /\ last.method = "DELETE" /\ last.api = "nosock"
    /\ last.ret = "None" /\ last.live /\ sock = NoFile

\* C12: pause(), resume(), reboot(), get_info() and ping() return the response
\* or None and never raise, and leave the handle, the configuration mapping
\* and the control-channel path unchanged; every step that changes the handle
\* is a step of start() or of stop().
C12_OnlyStartAndStopChangeHandle ==
    /\ [][(pause \/ resume \/ reboot \/ get_info \/ ping) =>
            /\ last'.ret \in {"None", "Ok"}
            /\ process' = process
            /\ config' = config
            /\ api_socket' = api_socket]_vars
    /\ [][process' # process => last'.op \in {"start", "stop"}]_vars

\* pause() failed at the transport on a live subprocess and the handle is
\* still the one start() stored.
C12_Witness ==
    /\ last.op = "pause" /\ last.api = "failed" /\ last.ret = "None"
    /\ last.live /\ process # NoProcess /\ process = last.target

\* C13: build_command renders every list-valued entry, whatever its key, as
\* one --<key> flag and one token per element (a record element as a single
\* comma-joined key=value token), and every scalar entry as exactly one
\* --<key> <value> pair.
C13_EveryListRenderedPerElement ==
    \A i \in 1..Len(config) :
        LET key == config[i][1]
            value == config[i][2]
        IN  /\ value.t = "list" => render_entry(key, value) = per_element(key, value.items)
            /\ value.t \in {"str", "int"} =>
                 render_entry(key, value) = << Flag(key), Arg(str_of(value)) >>

\* The keys of the configuration the patches were applied to, followed by the
\* keys of the patches in the order they were passed.
RECURSIVE PatchKeys(_)
PatchKeys(ps) == IF ps = <<>> THEN <<>> ELSE Keys(Head(ps)) \o PatchKeys(Tail(ps))
InsertedKeys == Keys(base) \o PatchKeys(patches)
FirstInsertion(k) == CHOOSE i \in 1..Len(InsertedKeys) :
    /\ InsertedKeys[i] = k
    /\ \A j \in 1..(i - 1) : InsertedKeys[j] # k
\* The value a key must have: that of the last patch that set it, else the
\* value it had before the patches.
Setters(k) == {i \in 1..Len(patches) : HasKey(patches[i], k)}
LastWrite(k) ==
    IF Setters(k) = {} THEN Get(base, k)
    ELSE Get(patches[CHOOSE i \in Setters(k) : \A j \in Setters(k) : j <= i], k)
FlagPositions(cmd, k) == {i \in 1..Len(cmd) : cmd[i] = Flag(k)}
FirstFlag(cmd, k) == CHOOSE i \in FlagPositions(cmd, k) : \A j \in FlagPositions(cmd, k) : i <= j

\* C14: after any sequence of update_config patches the rendered argument
\* list holds, for every key of a patch, the value of the last patch that set
\* it, every other key keeps its previous value, and each key is rendered
\* once, at the position of its first insertion.
C14_LastWriteWinsFirstInsertionOrder ==
    LET cmd == build_command(config)
        keys == {InsertedKeys[i] : i \in 1..Len(InsertedKeys)}
    IN  /\ \A k \in keys :
              LET block == render_entry(k, LastWrite(k))
              IN  /\ FlagPositions(cmd, k) # {}
                  /\ SubSeq(cmd, FirstFlag(cmd, k), FirstFlag(cmd, k) + Len(block) - 1) = block
                  /\ Cardinality(FlagPositions(cmd, k)) = Cardinality(FlagPositions(block, k))
        /\ \A a, b \in keys :
              FirstInsertion(a) < FirstInsertion(b) => FirstFlag(cmd, a) < FirstFlag(cmd, b)
        /\ \A i \in 1..Len(cmd) : cmd[i].kind = "flag" => \E k \in keys : cmd[i] = Flag(k)

\* Two patches set memory to different values and the second inserted a new
\* key; the rendered list carries the second value.
C14_Witness ==
    /\ Len(patches) = 2
    /\ HasKey(patches[1], "memory") /\ HasKey(patches[2], "memory")
    /\ Get(patches[1], "memory") # Get(patches[2], "memory")
    /\ ~HasKey(base, "rng") /\ HasKey(config, "rng")
    /\ Get(config, "memory") = Get(patches[2], "memory")

C16_StopReturns ==
    (pc \in {"stop_request", "stop_wait", "stop_kill_wait"})
        ~> (pc = "idle" /\ last.op = "stop" /\ last.ret = "None")

\* C17: one stop() call issues the vm.shutdown request at most once and
\* before any terminate(); terminate() is sent only when the subprocess had
\* not exited at the expiry of the graceful wait, and a stop() whose graceful
\* wait saw the subprocess exit sends no terminate().
C17_ShutdownOnceThenSignalOnlyOnExpiry ==
    /\ [](last.op = "stop" => last.reqs <= 1 /\ (last.sig => last.reqs = 1 /\ last.waited))
    /\ [][(~last.sig /\ last'.sig) =>
            /\ last.op = "stop" /\ last.reqs = 1
            /\ pc = "stop_wait" /\ clock = StopLimit /\ poll_is_None]_vars
    /\ [][(pc = "stop_kill_wait") => last'.reqs = last.reqs]_vars
    /\ [][(pc = "stop_wait" /\ pc' = "idle") => ~poll_is_None /\ ~last'.sig]_vars

\* stop() sent vm.shutdown once, the hypervisor received it but was still
\* alive ten seconds later, was sent terminate() and was reaped.
C17_Witness ==
    /\ pc = "idle" /\ last.op = "stop" /\ last.reqs = 1 /\ last.api = "ok"
    /\ last.sig /\ last.waited /\ last.live /\ hv[last.target] = "exited"

\* C18: after any sequence of update_config and load_config calls, the
\* control-channel path that start() removes and polls and api_request
\* connects to is the value rendered after --api-socket in the argument list.
C18_PathIsRenderedApiSocket ==
    LET cmd == build_command(config)
    IN  /\ FlagPositions(cmd, "api-socket") # {}
        /\ \A i \in FlagPositions(cmd, "api-socket") : cmd[i + 1] = Arg(api_socket)

\* C19: once start() has returned False, and until a start() returns True,
\* is_running() returns False and pause(), resume() and reboot() return None,
\* whatever the subprocess the failed start() left running does.
C19_FailedStartStaysNotRunning ==
    (hist[3] = 1 /\ pc = "idle") =>
        /\ last.op = "is_running" => last.ret = "False"
        /\ last.op \in {"pause", "resume", "reboot"} => last.ret = "None"

====
